---- MODULE Spec2Model ----
(***************************************************************************)
(* Model of objectdash/web/management/commands/webcam.py: the frame loop   *)
(* of Command.handle, the handler pipeline, the ImageAnnotator stage with  *)
(* its tracked annotations, and the AnnotationProcessor worker process     *)
(* connected to it by frame_queue and annotation_queue.                    *)
(*                                                                         *)
(* Rectangles are kept in pixel units of the 640x480 capture: an x         *)
(* coordinate k stands for the normalized value k/width and a y coordinate *)
(* k for k/height, so that Rect.translate(height, width) is exact.  Ratios *)
(* of areas and overlaps are compared as exact fractions scaled by 100.    *)
(***************************************************************************)
EXTENDS Integers, Sequences, FiniteSets, TLC

\* Bounds of the model.
MaxFrames == 3
MaxBatch == 2

\* Program constants (percent).
RatioLow == 85
RatioHigh == 115
OverlapMin == 70
MinConfidence == 50

None == "None"

----------------------------------------------------------------------------
\* Geometry: objectdash.detect.annotation (Rect), described by the design
\* document only.

MkRect(x1, y1, x2, y2) == [x1 |-> x1, y1 |-> y1, x2 |-> x2, y2 |-> y2]

Min(a, b) == IF a <= b THEN a ELSE b
Max(a, b) == IF a >= b THEN a ELSE b

\* Rect.area(): width x height (in units of 1/(width*height)).
Area(r) == (r.x2 - r.x1) * (r.y2 - r.y1)

\* Rect.overlap(other): None when the intersection has non-positive width or
\* height, otherwise intersection area over union area, kept as a fraction.
Overlap(a, b) ==
    LET w == Min(a.x2, b.x2) - Max(a.x1, b.x1)
        h == Min(a.y2, b.y2) - Max(a.y1, b.y1)
    IN  IF w <= 0 \/ h <= 0
        THEN [none |-> TRUE, num |-> 0, den |-> 1]
        ELSE [none |-> FALSE, num |-> w * h,
              den |-> Area(a) + Area(b) - w * h]

\* Rect.translate(height, width): the pixel box (y1, x1, y2, x2).
Translate(r) == <<r.y1, r.x1, r.y2, r.x2>>

----------------------------------------------------------------------------
\* Detections (Annotation objects returned by ObjectDetector.annotate).

Det(label, score, rect) == [label |-> label, score |-> score, rect |-> rect]

RectA == MkRect(0, 0, 6, 1)
RectB == MkRect(0, 0, 7, 1)
RectC == MkRect(0, 0, 8, 1)
RectZ == MkRect(2, 0, 2, 1)
RectFar == MkRect(10, 0, 16, 1)

\* What the detector may report: one scene per run.
SmallScene == {Det("person", 90, RectA)}
SceneBand == {Det("person", 90, RectA), Det("person", 90, RectB),
              Det("person", 30, RectC)}
SceneDegenerate == {Det("person", 90, RectA), Det("person", 90, RectZ)}
SceneApart == {Det("person", 90, RectA), Det("person", 90, RectFar),
               Det("dog", 90, RectA)}
\* two boxes whose overlap is exactly 0.7 (14 px of 20), and two whose overlap
\* is exactly 0.71 (142 px of 200)
RectE1 == MkRect(0, 0, 17, 1)
RectE2 == MkRect(3, 0, 20, 1)
RectG1 == MkRect(0, 0, 171, 1)
RectG2 == MkRect(29, 0, 200, 1)
SceneEdge == {Det("person", 90, RectE1), Det("person", 90, RectE2)}
SceneOver == {Det("person", 90, RectG1), Det("person", 90, RectG2)}
ReconScenes == {SceneBand, SceneDegenerate, SceneApart, SceneEdge, SceneOver}

RECURSIVE SeqsUpTo(_, _)
SeqsUpTo(S, n) ==
    IF n = 0 THEN {<<>>}
    ELSE LET shorter == SeqsUpTo(S, n - 1)
         IN  shorter \cup {Append(s, x) : s \in {t \in shorter : Len(t) = n - 1}, x \in S}

----------------------------------------------------------------------------
\* TrackingAnnotation objects.  An object is a record kept in the heap objs
\* under its uuid; rectAttr is the instance attribute `rect`, which exists
\* only once line 227 has assigned it (attribute lookup finds it before
\* __getattr__ forwards to the wrapped annotation).

\* TrackingAnnotation.init_tracker
init_tracker(t, image_np) ==
    LET box == Translate(t.annotation.rect)
        y1 == box[1]
        x1 == box[2]
        y2 == box[3]
        x2 == box[4]
        win == <<x1, y1, x2 - x1, y2 - y1>>
    IN  [t EXCEPT !.track_window = win,
                  !.tracker = [frame |-> image_np, window |-> win]]

\* TrackingAnnotation.__init__ (the uuid is the key under which it is kept)
NewTrackingAnnotation(image_np, annotation) ==
    init_tracker([annotation |-> annotation, rectAttr |-> <<>>,
                  track_window |-> <<0, 0, 0, 0>>,
                  tracker |-> [frame |-> 0, window |-> <<0, 0, 0, 0>>]],
                 image_np)

\* t.rect, t.label, t.score as the code reads them (__getattr__)
GetRect(t) == IF t.rectAttr # <<>> THEN t.rectAttr[1] ELSE t.annotation.rect
GetLabel(t) == t.annotation.label
GetScore(t) == t.annotation.score

\* TrackingAnnotation.step, for the window the tracker returned
step(t, win) ==
    LET x == win[1]
        y == win[2]
        width == win[3]
        height == win[4]
    IN  [t EXCEPT !.track_window = win,
                  !.annotation.rect = MkRect(x, y, x + width, y + height)]

----------------------------------------------------------------------------
\* Reconciliation: the else branch of ImageAnnotator.apply, lines 216-234.

\* the gate with the ratio taken the other way round (detection over tracked)
SizeGateInverted(tArea, dArea) ==
    RatioLow * tArea <= 100 * dArea /\ 100 * dArea <= RatioHigh * tArea

\* line 223: 0.85 <= existing_anno.rect.area() / anno.rect.area() <= 1.15
SizeGate(tArea, dArea) ==
    RatioLow * dArea <= 100 * tArea /\ 100 * tArea <= RatioHigh * dArea

\* the overlap test with >= for >
OverlapGateNonStrict(ov) ==
    ~ov.none /\ ov.num # 0 /\ 100 * ov.num >= OverlapMin * ov.den

\* line 225: overlap and overlap > 0.7
OverlapGate(ov) ==
    ~ov.none /\ ov.num # 0 /\ 100 * ov.num > OverlapMin * ov.den

\* the scan without the break of line 230: it goes on after a match, and the
\* last matching annotation is the one kept
RECURSIVE ScanExistingNoBreak(_, _, _, _)
ScanExistingNoBreak(anno, existing, heap, j) ==
    IF j > Len(existing) THEN 0
    ELSE LET t == heap[existing[j]]
             rest == ScanExistingNoBreak(anno, existing, heap, j + 1)
         IN  IF anno.label # GetLabel(t) THEN rest
             ELSE IF Area(anno.rect) = 0 THEN -1
             ELSE IF SizeGate(Area(GetRect(t)), Area(anno.rect))
                     /\ OverlapGate(Overlap(anno.rect, GetRect(t)))
                     /\ rest = 0
             THEN j
             ELSE rest

\* lines 219-230: the scan of self.annotations for one detection, from
\* position j.  The result is the position of the first match, 0 when the
\* loop ends without a break, -1 when the division of line 223 raises
\* ZeroDivisionError.
RECURSIVE ScanExisting(_, _, _, _)
ScanExisting(anno, existing, heap, j) ==
    IF j > Len(existing) THEN 0
    ELSE LET t == heap[existing[j]]
         IN  IF anno.label # GetLabel(t)
             THEN ScanExisting(anno, existing, heap, j + 1)
             ELSE IF Area(anno.rect) = 0 THEN -1
             ELSE IF SizeGate(Area(GetRect(t)), Area(anno.rect))
                     /\ OverlapGate(Overlap(anno.rect, GetRect(t)))
             THEN j
             ELSE ScanExisting(anno, existing, heap, j + 1)

\* lines 226-229: a match of anno to the object t
MatchExisting(t, anno, anno_frame) ==
    init_tracker([t EXCEPT !.rectAttr = <<anno.rect>>], anno_frame)

\* lines 218-233: the loop over the detections from position i.  st carries
\* the heap, final_annos, self.colors, the next fresh uuid, whether the loop
\* raised, and a record of what was done with each detection.
RECURSIVE ReconcileFrom(_, _, _, _, _)
ReconcileFrom(i, annos, existing, anno_frame, st) ==
    IF i > Len(annos) \/ st.raised THEN st
    ELSE LET anno == annos[i]
             j == ScanExisting(anno, existing, st.heap, 1)
         IN  IF j = -1 THEN [st EXCEPT !.raised = TRUE]
             ELSE IF j > 0
             THEN LET u == existing[j]
                      t == st.heap[u]
                  IN  ReconcileFrom(i + 1, annos, existing, anno_frame,
                        [st EXCEPT
                           !.heap = [@ EXCEPT ![u] = MatchExisting(t, anno, anno_frame)],
                           !.final = Append(@, u),
                           !.colors = Append(@, "green"),
                           !.log = Append(@, [det |-> anno, uuid |-> u, matched |-> TRUE,
                                              tArea |-> Area(GetRect(t)),
                                              tRect |-> GetRect(t)])])
             ELSE LET u == st.next
                  IN  ReconcileFrom(i + 1, annos, existing, anno_frame,
                        [st EXCEPT
                           !.heap = (u :> NewTrackingAnnotation(anno_frame, anno)) @@ @,
                           !.final = Append(@, u),
                           !.colors = Append(@, "red"),
                           !.next = u + 1,
                           !.log = Append(@, [det |-> anno, uuid |-> u, matched |-> FALSE,
                                              tArea |-> 0, tRect |-> anno.rect])])

\* line 211: the class filter
FilterPerson(batch) == SelectSeq(batch, LAMBDA anno : anno.label = "person")

Range(s) == {s[k] : k \in DOMAIN s}

\* reconciliation that appends the old annotations no detection matched to
\* final_annos instead of dropping them
ReconcileKeepingUnmatched(annos, existing, heap, anno_frame, next) ==
    LET r == ReconcileFrom(1, annos, existing, anno_frame,
                  [heap |-> heap, final |-> <<>>, colors |-> <<>>, next |-> next,
                   raised |-> FALSE, log |-> <<>>])
    IN  [r EXCEPT !.final = @ \o SelectSeq(existing, LAMBDA u : u \notin Range(r.final))]

\* reconciliation that leaves the tracked set alone when the filtered batch
\* is empty
ReconcileSkippingEmpty(annos, existing, heap, anno_frame, next) ==
    LET r == ReconcileFrom(1, annos, existing, anno_frame,
                  [heap |-> heap, final |-> <<>>, colors |-> <<>>, next |-> next,
                   raised |-> FALSE, log |-> <<>>])
    IN  IF annos = <<>> THEN [r EXCEPT !.final = existing] ELSE r

\* reconciliation that numbers the new objects from 1 in every cycle instead
\* of taking a fresh uuid
ReconcileReusingIds(annos, existing, heap, anno_frame, next) ==
    ReconcileFrom(1, annos, existing, anno_frame,
                  [heap |-> heap, final |-> <<>>, colors |-> <<>>, next |-> 1,
                   raised |-> FALSE, log |-> <<>>])

\* lines 216-234: the reconciliation of the filtered batch annos with the
\* tracked list existing
Reconcile(annos, existing, heap, anno_frame, next) ==
    ReconcileFrom(1, annos, existing, anno_frame,
                  [heap |-> heap, final |-> <<>>, colors |-> <<>>, next |-> next,
                   raised |-> FALSE, log |-> <<>>])
Restrict(f, S) == [x \in S |-> f[x]]

----------------------------------------------------------------------------
\* State.

VARIABLES
    options,            \* the command's options (Command.add_arguments)
    scene,              \* what the detector can report in this run
    frameLimit,         \* number of frames the capture delivers in this run
    pc,                 \* position of Command.handle
    h,                  \* index of the handler the current loop is at
    frameNo,            \* number of frames read from the capture
    frame,              \* the local `frame` of Command.handle
    exc,                \* the exception that left Command.handle, or None
    closeLog,           \* handlers on which close() was invoked, in order
    via,                \* handlers whose return value the local `frame` is
    firstLog,           \* apply_first calls made by Command.handle, in order
    applyLog,           \* apply calls made by Command.handle on this frame
    frame_queue,        \* ImageAnnotator.frame_queue
    annotation_queue,   \* ImageAnnotator.annotation_queue
    annotations,        \* ImageAnnotator.annotations: uuids of the objects
    objs,               \* the TrackingAnnotation objects, by uuid
    colors,             \* ImageAnnotator.colors
    anno_frame,         \* ImageAnnotator.anno_frame (0: not yet set)
    nextUuid,           \* the next uuid uuid.uuid4() gives
    wpc,                \* position of AnnotationProcessor.run
    wframe,             \* the frame the worker is annotating (0: none)
    sentinels,          \* number of None put on frame_queue
    lateCalls,          \* detector.annotate calls begun after a None was put
    wlate,              \* the call in progress is such a call
    lateBatches,        \* batches put for such calls
    branch,             \* branch the last ImageAnnotator.apply took
    stepped,            \* objects step() was called on in the last apply
    drawn,              \* objects drawn by the last draw_annotations
    lastRecon,          \* record of the last reconciliation
    since               \* 1 when a step-only tick followed the last reconciliation

vars == <<options, scene, frameLimit, pc, h, frameNo, frame, exc, closeLog, via,
          firstLog, applyLog, frame_queue,
          annotation_queue, annotations, objs, colors, anno_frame, nextUuid,
          wpc, wframe, sentinels, lateCalls, wlate, lateBatches, branch, stepped,
          drawn, lastRecon, since>>

mainVars == <<pc, h, frameNo, frame, exc, closeLog, via, firstLog, applyLog>>
annotatorVars == <<annotations, objs, colors, anno_frame, nextUuid, branch,
                   stepped, drawn, lastRecon, since>>
workerVars == <<wpc, wframe, lateCalls, wlate, lateBatches>>

AllOptions == [subtract_bg : BOOLEAN, show_fps : BOOLEAN, avi_out : BOOLEAN]

\* Command.setup_pipeline
setup_pipeline(o) ==
    (IF o.subtract_bg THEN <<"BackgroundSubtractor">> ELSE <<>>)
    \o <<"ImageAnnotator">>
    \o (IF o.show_fps THEN <<"FPSCounter">> ELSE <<>>)
    \o (IF o.avi_out THEN <<"AVIOutput">> ELSE <<>>)

pipeline == setup_pipeline(options)

\* What travels on frame_queue: a frame, or the None of ImageAnnotator.close.
FrameItem(f) == [none |-> FALSE, frame |-> f]
Sentinel == [none |-> TRUE, frame |-> 0]

NoObjs == [u \in {} |-> 0]

NoRecon == [done |-> FALSE, batch |-> <<>>, batchFrame |-> 0, annos |-> <<>>,
            anno_frame |-> 0, before |-> <<>>, beforeObjs |-> NoObjs,
            log |-> <<>>, raised |-> FALSE, repeat |-> FALSE, next |-> 1]

\* ImageAnnotator.__init__, AnnotationProcessor.__init__ and the state of
\* Command.handle after setup_pipeline.
InitWith(opts, scs, frames) ==
    /\ options \in opts
    /\ scene \in scs
    /\ frameLimit = frames
    /\ pc = "first_read"
    /\ h = 1
    /\ frameNo = 0
    /\ frame = 0
    /\ exc = None
    /\ closeLog = <<>>
    /\ via = <<>>
    /\ firstLog = <<>>
    /\ applyLog = <<>>
    /\ frame_queue = <<>>
    /\ annotation_queue = <<>>
    /\ annotations = <<>>
    /\ objs = NoObjs
    /\ colors = <<>>
    /\ anno_frame = 0
    /\ nextUuid = 1
    /\ wpc = "get"
    /\ wframe = 0
    /\ sentinels = 0
    /\ lateCalls = 0
    /\ wlate = FALSE
    /\ lateBatches = 0
    /\ branch = "none"
    /\ stepped = <<>>
    /\ drawn = <<>>
    /\ lastRecon = NoRecon
    /\ since = 0

Init == InitWith(AllOptions, {SmallScene}, MaxFrames)

InitRecon ==
    InitWith({[subtract_bg |-> FALSE, show_fps |-> TRUE, avi_out |-> FALSE]},
             ReconScenes, MaxFrames)

----------------------------------------------------------------------------
\* ImageAnnotator.

\* line 135, cv2 tracker.update: an opaque tracker; it returns the window
\* unchanged or moved by one pixel column.
TrackerUpdate(t, moved) ==
    IF moved
    THEN <<t.track_window[1] + 1, t.track_window[2], t.track_window[3], t.track_window[4]>>
    ELSE t.track_window

\* lines 213-214: step() on every entry of self.annotations, in order; moved[k]
\* tells whether the tracker of the k-th entry returned a moved window.
RECURSIVE StepAll(_, _, _, _)
StepAll(list, heap, moved, k) ==
    IF k > Len(list) THEN heap
    ELSE LET u == list[k]
         IN  StepAll(list,
                     [heap EXCEPT ![u] = step(heap[u], TrackerUpdate(heap[u], moved[k]))],
                     moved, k + 1)

\* draw_annotations, lines 246-249: the objects drawn, in order
RECURSIVE DrawAnnotations(_, _, _, _)
DrawAnnotations(cols, list, heap, k) ==
    IF k > Len(cols) \/ k > Len(list) THEN <<>>
    ELSE (IF GetScore(heap[list[k]]) >= MinConfidence THEN <<list[k]>> ELSE <<>>)
         \o DrawAnnotations(cols, list, heap, k + 1)

\* a call Command.handle makes on a handler: the handler, the frame and the
\* handlers whose return value the argument is
Call(handler) == [handler |-> handler, frame |-> frame, via |-> via]

\* the loop `for handler in pipeline` moves to the next handler or ends
Advance(after) ==
    IF h < Len(pipeline)
    THEN /\ h' = h + 1
         /\ pc' = pc
    ELSE /\ h' = 1
         /\ pc' = after

\* apply_first with the frame put twice (the copy and the frame)
AnnotatorApplyFirstTwice ==
    /\ pc = "first_apply"
    /\ pipeline[h] = "ImageAnnotator"
    /\ anno_frame' = frame
    /\ frame_queue' = frame_queue \o <<FrameItem(frame), FrameItem(frame)>>
    /\ Advance("read")
    /\ firstLog' = Append(firstLog, Call(pipeline[h]))
    /\ via' = Append(via, pipeline[h])
    /\ UNCHANGED <<options, scene, frameLimit, frameNo, frame, exc, closeLog, applyLog, annotation_queue,
                   annotations, objs, colors, nextUuid, workerVars, sentinels,
                   branch, stepped, drawn, lastRecon, since>>

\* ImageAnnotator.apply_first, lines 203-207
AnnotatorApplyFirst ==
    /\ pc = "first_apply"
    /\ pipeline[h] = "ImageAnnotator"
    /\ anno_frame' = frame
    /\ frame_queue' = Append(frame_queue, FrameItem(frame))
    /\ Advance("read")
    /\ firstLog' = Append(firstLog, Call(pipeline[h]))
    /\ via' = Append(via, pipeline[h])
    /\ UNCHANGED <<options, scene, frameLimit, frameNo, frame, exc, closeLog, applyLog, annotation_queue,
                   annotations, objs, colors, nextUuid, workerVars, sentinels,
                   branch, stepped, drawn, lastRecon, since>>

\* the step-only branch with a dispatch of the frame on every tick
AnnotatorStepOnlyDispatching ==
    /\ pc = "apply"
    /\ pipeline[h] = "ImageAnnotator"
    /\ annotation_queue = <<>>
    /\ \E moved \in [1..Len(annotations) -> BOOLEAN] :
          objs' = StepAll(annotations, objs, moved, 1)
    /\ stepped' = annotations
    /\ drawn' = DrawAnnotations(colors, annotations, objs', 1)
    /\ branch' = "step"
    /\ since' = 1
    /\ frame_queue' = Append(frame_queue, FrameItem(frame))
    /\ Advance("waitkey")
    /\ applyLog' = Append(applyLog, Call(pipeline[h]))
    /\ via' = Append(via, pipeline[h])
    /\ UNCHANGED <<options, scene, frameLimit, frameNo, frame, exc, closeLog, firstLog,
                   annotation_queue, annotations, colors, anno_frame, nextUuid,
                   workerVars, sentinels, lastRecon>>

\* the poll as a blocking get(): with no batch waiting the call does not
\* return
AnnotatorBlockingGet ==
    /\ pc = "apply"
    /\ pipeline[h] = "ImageAnnotator"
    /\ annotation_queue = <<>>
    /\ FALSE
    /\ UNCHANGED vars

\* the step-only branch with anno_frame refreshed from the current frame
AnnotatorStepOnlyRefreshing ==
    /\ pc = "apply"
    /\ pipeline[h] = "ImageAnnotator"
    /\ annotation_queue = <<>>
    /\ \E moved \in [1..Len(annotations) -> BOOLEAN] :
          objs' = StepAll(annotations, objs, moved, 1)
    /\ stepped' = annotations
    /\ drawn' = DrawAnnotations(colors, annotations, objs', 1)
    /\ branch' = "step"
    /\ since' = 1
    /\ anno_frame' = frame
    /\ applyLog' = Append(applyLog, Call(pipeline[h]))
    /\ via' = Append(via, pipeline[h])
    /\ Advance("waitkey")
    /\ UNCHANGED <<options, scene, frameLimit, frameNo, frame, exc, closeLog, firstLog,
                   frame_queue, annotation_queue, annotations, colors, nextUuid,
                   workerVars, sentinels, lastRecon>>

\* ImageAnnotator.apply, lines 210-214 and 239-241: the poll found nothing
AnnotatorStepOnly ==
    /\ pc = "apply"
    /\ pipeline[h] = "ImageAnnotator"
    /\ annotation_queue = <<>>
    /\ \E moved \in [1..Len(annotations) -> BOOLEAN] :
          objs' = StepAll(annotations, objs, moved, 1)
    /\ stepped' = annotations
    /\ drawn' = DrawAnnotations(colors, annotations, objs', 1)
    /\ branch' = "step"
    /\ since' = 1
    /\ Advance("waitkey")
    /\ applyLog' = Append(applyLog, Call(pipeline[h]))
    /\ via' = Append(via, pipeline[h])
    /\ UNCHANGED <<options, scene, frameLimit, frameNo, frame, exc, closeLog, firstLog, frame_queue,
                   annotation_queue, annotations, colors, anno_frame, nextUuid,
                   workerVars, sentinels, lastRecon>>

\* ImageAnnotator.apply, lines 210-235: the poll returned a batch.  dets are
\* the detections detector.annotate computed for the batch's frame: an opaque
\* detector's output, which nothing reads between the put and this poll, so
\* it is drawn here and annotation_queue carries the batch's frame only.
AnnotatorReconcile ==
    /\ pc = "apply"
    /\ pipeline[h] = "ImageAnnotator"
    /\ annotation_queue # <<>>
    /\ \E dets \in SeqsUpTo(scene, MaxBatch) :
       LET batch == [frame |-> Head(annotation_queue).frame, dets |-> dets]
           annos == FilterPerson(batch.dets)
           r == Reconcile(annos, annotations, objs, anno_frame, nextUuid)
       IN  /\ annotation_queue' = Tail(annotation_queue)
           /\ colors' = r.colors
           /\ lastRecon' = [done |-> TRUE, batch |-> batch.dets,
                            batchFrame |-> batch.frame, annos |-> annos,
                            anno_frame |-> anno_frame, before |-> annotations,
                            beforeObjs |-> objs, log |-> r.log,
                            raised |-> r.raised,
                            repeat |-> lastRecon.done /\ since = 0
                                       /\ lastRecon.annos = annos,
                            next |-> nextUuid]
           /\ IF r.raised
              THEN /\ objs' = Restrict(r.heap, Range(annotations))
                   /\ pc' = "raised"
                   /\ exc' = "ZeroDivisionError"
                   /\ UNCHANGED <<annotations, anno_frame, nextUuid>>
              ELSE /\ annotations' = r.final
                   /\ objs' = Restrict(r.heap, Range(r.final))
                   /\ nextUuid' = r.next
                   /\ anno_frame' = frame
                   /\ pc' = "apply_put"
                   /\ exc' = exc
    /\ applyLog' = Append(applyLog, Call(pipeline[h]))
    /\ branch' = "reconcile"
    /\ stepped' = <<>>
    /\ since' = 0
    /\ UNCHANGED <<options, scene, frameLimit, h, frameNo, frame, closeLog, via, firstLog,
                   frame_queue,
                   workerVars, sentinels, drawn>>

\* ImageAnnotator.apply, lines 236-241: the dispatch of the current frame
AnnotatorDispatch ==
    /\ pc = "apply_put"
    /\ frame_queue' = Append(frame_queue, FrameItem(frame))
    /\ drawn' = DrawAnnotations(colors, annotations, objs, 1)
    /\ IF h < Len(pipeline)
       THEN /\ h' = h + 1
            /\ pc' = "apply"
       ELSE /\ h' = 1
            /\ pc' = "waitkey"
    /\ via' = Append(via, pipeline[h])
    /\ UNCHANGED <<options, scene, frameLimit, frameNo, frame, exc, closeLog, firstLog, applyLog, annotation_queue,
                   annotations, objs, colors, anno_frame, nextUuid, workerVars,
                   sentinels, branch, stepped, lastRecon, since>>

\* ImageAnnotator.close, lines 243-244
AnnotatorClose ==
    /\ frame_queue' = Append(frame_queue, Sentinel)
    /\ sentinels' = sentinels + 1

----------------------------------------------------------------------------
\* Command.handle.

\* line 347: the first cap.read()
FirstRead ==
    /\ pc = "first_read"
    /\ frameNo' = 1
    /\ frame' = 1
    /\ pc' = "first_apply"
    /\ h' = 1
    /\ via' = <<>>
    /\ UNCHANGED <<options, scene, frameLimit, exc, closeLog, firstLog, applyLog, frame_queue, annotation_queue,
                   annotatorVars, workerVars, sentinels>>

\* lines 348-349, for the handlers other than ImageAnnotator
\* (BackgroundSubtractor, FPSCounter, AVIOutput: apply_first calls apply)
HandlerApplyFirst ==
    /\ pc = "first_apply"
    /\ pipeline[h] # "ImageAnnotator"
    /\ Advance("read")
    /\ firstLog' = Append(firstLog, Call(pipeline[h]))
    /\ via' = Append(via, pipeline[h])
    /\ UNCHANGED <<options, scene, frameLimit, frameNo, frame, exc, closeLog, applyLog, frame_queue,
                   annotation_queue, annotatorVars, workerVars, sentinels>>

\* a loop whose body calls apply_first on every frame
ReadApplyingFirst ==
    /\ pc = "read"
    /\ frameNo < frameLimit
    /\ frameNo' = frameNo + 1
    /\ frame' = frameNo + 1
    /\ pc' = "first_apply"
    /\ h' = 1
    /\ via' = <<>>
    /\ applyLog' = <<>>
    /\ UNCHANGED <<options, scene, frameLimit, exc, closeLog, firstLog, frame_queue,
                   annotation_queue, annotatorVars, workerVars, sentinels>>

\* line 352: cap.read() at the top of the loop
Read ==
    /\ pc = "read"
    /\ frameNo < frameLimit
    /\ frameNo' = frameNo + 1
    /\ frame' = frameNo + 1
    /\ pc' = "apply"
    /\ h' = 1
    /\ via' = <<>>
    /\ applyLog' = <<>>
    /\ UNCHANGED <<options, scene, frameLimit, exc, closeLog, firstLog, frame_queue, annotation_queue,
                   annotatorVars, workerVars, sentinels>>

\* lines 354-357, for the handlers other than ImageAnnotator
HandlerApply ==
    /\ pc = "apply"
    /\ pipeline[h] # "ImageAnnotator"
    /\ Advance("waitkey")
    /\ applyLog' = Append(applyLog, Call(pipeline[h]))
    /\ via' = Append(via, pipeline[h])
    /\ UNCHANGED <<options, scene, frameLimit, frameNo, frame, exc, closeLog, firstLog, frame_queue,
                   annotation_queue, annotatorVars, workerVars, sentinels>>

\* lines 358-362: cv2.waitKey(1) returned; quit tells whether the key was q
WaitKey ==
    /\ pc = "waitkey"
    /\ \E quit \in BOOLEAN :
          pc' = IF quit THEN "close_q" ELSE "read"
    /\ h' = 1
    /\ UNCHANGED <<options, scene, frameLimit, frameNo, frame, exc, closeLog, via, firstLog, applyLog, frame_queue,
                   annotation_queue, annotatorVars, workerVars, sentinels>>

\* lines 360-362 and 364-366: handler.close() in the loop over the pipeline,
\* then break (and lines 368-369) or raise
Close ==
    /\ pc \in {"close_q", "close_int"}
    /\ closeLog' = Append(closeLog, pipeline[h])
    /\ IF pipeline[h] = "ImageAnnotator"
       THEN AnnotatorClose
       ELSE UNCHANGED <<frame_queue, sentinels>>
    /\ IF h < Len(pipeline)
       THEN /\ h' = h + 1
            /\ UNCHANGED <<pc, exc>>
       ELSE /\ h' = 1
            /\ pc' = IF pc = "close_q" THEN "done" ELSE "raised"
            /\ exc' = IF pc = "close_q" THEN exc ELSE "KeyboardInterrupt"
    /\ UNCHANGED <<options, scene, frameLimit, frameNo, frame, via, firstLog, applyLog,
                   annotation_queue, annotatorVars, workerVars>>

\* A KeyboardInterrupt delivered to the main process.  The try of line 358
\* covers the key wait and the close loop of lines 360-361 only; anywhere
\* else, and inside the except clause, it leaves handle.
Interrupt ==
    /\ pc \notin {"done", "raised"}
    /\ IF pc \in {"waitkey", "close_q"}
       THEN /\ pc' = "close_int"
            /\ h' = 1
            /\ exc' = exc
       ELSE /\ pc' = "raised"
            /\ exc' = "KeyboardInterrupt"
            /\ h' = h
    /\ UNCHANGED <<options, scene, frameLimit, frameNo, frame, closeLog, via, firstLog, applyLog, frame_queue,
                   annotation_queue, annotatorVars, workerVars, sentinels>>

----------------------------------------------------------------------------
\* AnnotationProcessor.run.

\* run with `continue` for `break`: the None is dropped and the loop goes on
WorkerGetNoBreak ==
    /\ wpc = "get"
    /\ frame_queue # <<>>
    /\ frame_queue' = Tail(frame_queue)
    /\ IF Head(frame_queue).none
       THEN UNCHANGED <<wpc, wframe, lateCalls, wlate>>
       ELSE /\ wpc' = "annotate"
            /\ wframe' = Head(frame_queue).frame
            /\ wlate' = (sentinels > 0)
            /\ lateCalls' = IF sentinels > 0 THEN lateCalls + 1 ELSE lateCalls
    /\ UNCHANGED <<options, scene, frameLimit, mainVars, annotation_queue, annotatorVars,
                   sentinels, lateBatches>>

\* lines 46-50: frame_queue.get(), the None test, and the start of
\* detector.annotate(frame)
WorkerGet ==
    /\ wpc = "get"
    /\ frame_queue # <<>>
    /\ frame_queue' = Tail(frame_queue)
    /\ IF Head(frame_queue).none
       THEN /\ wpc' = "done"
            /\ UNCHANGED <<wframe, lateCalls, wlate>>
       ELSE /\ wpc' = "annotate"
            /\ wframe' = Head(frame_queue).frame
            /\ wlate' = (sentinels > 0)
            /\ lateCalls' = IF sentinels > 0 THEN lateCalls + 1 ELSE lateCalls
    /\ UNCHANGED <<options, scene, frameLimit, mainVars, annotation_queue, annotatorVars,
                   sentinels, lateBatches>>

\* lines 50-52: detector.annotate returns a batch, which is put on
\* annotation_queue (its detections are drawn where the batch is polled)
WorkerPut ==
    /\ wpc = "annotate"
    /\ annotation_queue' = Append(annotation_queue, [frame |-> wframe])
    /\ wpc' = "get"
    /\ wframe' = 0
    /\ wlate' = FALSE
    /\ lateBatches' = IF wlate THEN lateBatches + 1 ELSE lateBatches
    /\ UNCHANGED <<options, scene, frameLimit, mainVars, frame_queue, annotatorVars,
                   sentinels, lateCalls>>

----------------------------------------------------------------------------
MainStep ==
    \/ FirstRead
    \/ HandlerApplyFirst
    \/ AnnotatorApplyFirst
    \/ Read
    \/ HandlerApply
    \/ AnnotatorStepOnly
    \/ AnnotatorReconcile
    \/ AnnotatorDispatch
    \/ WaitKey
    \/ Close

WorkerStep == WorkerGet \/ WorkerPut

Next == MainStep \/ Interrupt \/ WorkerStep

Spec == Init /\ [][Next]_vars

\* Longer runs over the small scene: a reconciliation of an object that an
\* earlier reconciliation matched can be followed by step-only ticks.
InitTrack ==
    InitWith({[subtract_bg |-> FALSE, show_fps |-> TRUE, avi_out |-> FALSE]},
             {SmallScene}, MaxFrames + 1)

\* Runs that no interrupt disturbs, over the richer scenes.
NextRecon == MainStep \/ WorkerStep

SpecRecon == InitRecon /\ [][NextRecon]_vars

SpecTrack == InitTrack /\ [][NextRecon]_vars

\* The frame loop is scheduled; nothing is assumed of the worker.
SpecLoop == Init /\ [][Next]_vars /\ WF_vars(MainStep)

\* The worker is scheduled and every detector.annotate call returns.
SpecWorkerFair == Init /\ [][Next]_vars /\ WF_vars(WorkerStep)

----------------------------------------------------------------------------
\* Properties.

AtAnnotator == pc = "apply" /\ pipeline[h] = "ImageAnnotator"
Terminated == pc \in {"done", "raised"}

\* Detection requests outstanding: frames waiting in frame_queue, the frame
\* the worker is annotating, batches waiting in annotation_queue.
FramesQueued == Len(SelectSeq(frame_queue, LAMBDA it : ~it.none))
NonesQueued == Len(SelectSeq(frame_queue, LAMBDA it : it.none))
Outstanding ==
    FramesQueued + (IF wpc = "annotate" THEN 1 ELSE 0) + Len(annotation_queue)

\* C1: between ImageAnnotator.apply_first and ImageAnnotator.close at most
\* one detection request is outstanding (frames in frame_queue, plus the
\* frame being annotated, plus batches in annotation_queue), in every
\* interleaving of the frame loop and the worker.
C1_AtMostOneOutstanding ==
    (anno_frame # 0 /\ sentinels = 0) => Outstanding <= 1

\* C1 witness: after a reconciliation and a new dispatch, the worker has
\* returned the next batch, which waits in annotation_queue.
C1_Witness ==
    /\ anno_frame # 0 /\ sentinels = 0
    /\ lastRecon.done
    /\ Len(annotation_queue) = 1
    /\ Outstanding = 1

\* C2: the frame loop never waits for the detector.  With the loop scheduled
\* and nothing assumed of the worker, every ImageAnnotator.apply that has
\* begun completes (or is left by an exception); an apply that polls an empty
\* annotation_queue completes by the step-only branch, dispatching nothing;
\* and the loop goes on to read every frame unless it is quit or interrupted.
C2_LoopNeverBlocks ==
    /\ (pc \in {"apply", "apply_put"}) ~> (pc \in {"waitkey", "raised"})
    /\ [][(AtAnnotator /\ annotation_queue = <<>> /\ <<pc, h>>' # <<pc, h>>
             /\ pc' # "raised")
          => (branch' = "step" /\ frame_queue' = frame_queue)]_vars
    /\ <>(frameNo = MaxFrames \/ Terminated)

\* C2 witness: the loop has processed every frame by step-only ticks while
\* the worker has not even taken the first frame from frame_queue.
C2_Witness ==
    /\ frameNo = MaxFrames
    /\ pc = "waitkey"
    /\ branch = "step"
    /\ wpc = "get"
    /\ FramesQueued = 1

\* C3: on every path by which the main loop terminates (quit key, or an
\* interrupt at any point of the loop) close() has been invoked exactly once
\* on every handler, in chain order, and None has been put on frame_queue
\* exactly once.
C3_CloseOnceOnEveryExit ==
    (Terminated /\ frameNo >= 2) => (closeLog = pipeline /\ sentinels = 1)

\* C4: once None has been put on frame_queue the worker eventually leaves its
\* loop (the worker being scheduled and every annotate call returning), and
\* it has left its loop exactly when it has taken a None from frame_queue.
C4_WorkerStopsOnSentinel ==
    /\ (sentinels > 0) ~> (wpc = "done")
    /\ []((wpc = "done") <=> (NonesQueued < sentinels))

\* C4 witness: the worker has left its loop after annotating the frame that
\* was queued ahead of the None.
C4_Witness ==
    /\ wpc = "done"
    /\ sentinels = 1
    /\ lateCalls = 1

\* C5 as stated: after None was put on frame_queue no detector.annotate call
\* begins and no batch is put for such a call.
C5_NoCallAfterSentinel == lateCalls = 0 /\ lateBatches = 0

\* C5 as amended: after None was put on frame_queue at most one
\* detector.annotate call begins (for the frame that was queued ahead of the
\* None) and at most one batch is put for it; once the worker has taken the
\* None it begins no call and puts no batch.
C5_AtMostOneCallAfterSentinel ==
    /\ [](lateCalls <= 1 /\ lateBatches <= lateCalls)
    /\ [][(wpc = "done") => (/\ wpc' = "done"
                             /\ lateCalls' = lateCalls
                             /\ lateBatches' = lateBatches
                             /\ Len(annotation_queue') <= Len(annotation_queue))]_vars

\* C5 witness: a batch has been put for a call begun after the None was put,
\* and the worker has then taken the None.
C5_Witness ==
    /\ lateCalls = 1
    /\ lateBatches = 1
    /\ wpc = "done"

----------------------------------------------------------------------------
\* Properties of reconciliation, read off the record of the last one.

\* A reconciliation has just completed: nothing has stepped or drawn since.
JustReconciled == lastRecon.done /\ pc = "apply_put"

Matched(k) == lastRecon.log[k].matched
\* the k-th detection is the only one of its batch matched to its object
MatchedOnce(k) ==
    /\ Matched(k)
    /\ \A k2 \in DOMAIN lastRecon.log :
          (Matched(k2) /\ lastRecon.log[k2].uuid = lastRecon.log[k].uuid) => k2 = k

\* the track window init_tracker computes from a rect
WindowOf(r) == <<r.x1, r.y1, r.x2 - r.x1, r.y2 - r.y1>>

\* C6: when reconciliation matches a detection d to a tracked annotation t,
\* the new tracked set holds t itself, with its uuid, at d's position, t's
\* rect is d's rect, and no new TrackingAnnotation was created for d.
C6_MatchKeepsIdentityTakesRect ==
    JustReconciled =>
      \A k \in DOMAIN lastRecon.log :
         Matched(k) =>
           LET e == lastRecon.log[k]
           IN  /\ e.uuid \in Range(lastRecon.before)
               /\ annotations[k] = e.uuid
               /\ GetRect(objs[e.uuid]) = e.det.rect
               /\ objs[e.uuid].annotation.label = lastRecon.beforeObjs[e.uuid].annotation.label

\* C7: on a match of detection d to tracked annotation t, t's tracker is
\* re-initialized on the detection frame with the track window computed
\* from d's rect.
C7_TrackerReinitAtDetectionRect ==
    JustReconciled =>
      \A k \in DOMAIN lastRecon.log :
         MatchedOnce(k) =>
           LET e == lastRecon.log[k]
           IN  objs[e.uuid].tracker =
                 [frame |-> lastRecon.anno_frame, window |-> WindowOf(e.det.rect)]

\* C8 as stated: a detection whose area is less than 0.85 times, or greater
\* than 1.15 times, the area of a tracked annotation of the same label is
\* never matched to it.
C8_OutOfBandNeverMatched ==
    JustReconciled =>
      \A k \in DOMAIN lastRecon.log :
         Matched(k) =>
           LET e == lastRecon.log[k]
               tA == Area(GetRect(lastRecon.beforeObjs[e.uuid]))
               dA == Area(e.det.rect)
           IN  ~(100 * dA < RatioLow * tA \/ 100 * dA > RatioHigh * tA)

\* C8 as amended: a detection d is never matched to a tracked annotation t
\* when the area of the rect t has at the moment of the comparison, divided
\* by d's area, is less than 0.85 or greater than 1.15.
C8_MatchedWithinRatioBand ==
    lastRecon.done =>
      \A k \in DOMAIN lastRecon.log :
         Matched(k) =>
           LET e == lastRecon.log[k]
               dA == Area(e.det.rect)
           IN  RatioLow * dA <= 100 * e.tArea /\ 100 * e.tArea <= RatioHigh * dA

\* C8 witness: a detection of more than 1.15 times the tracked annotation's
\* area is matched to it, and a later detection of the batch is matched to
\* the same annotation on the area that match gave it.
C8_Witness ==
    /\ JustReconciled
    /\ \E k \in DOMAIN lastRecon.log :
          /\ Matched(k)
          /\ 100 * Area(lastRecon.log[k].det.rect) > RatioHigh * lastRecon.log[k].tArea
    /\ \E k \in DOMAIN lastRecon.log :
          /\ Matched(k)
          /\ lastRecon.log[k].tArea
               # Area(GetRect(lastRecon.beforeObjs[lastRecon.log[k].uuid]))

\* C9: a batch holding a detection of area 0 is reconciled without a
\* division fault, whatever the tracked set.
C9_DegenerateBatchCompletes ==
    (lastRecon.done /\ \E k \in DOMAIN lastRecon.annos :
                          Area(lastRecon.annos[k].rect) = 0)
      => (~lastRecon.raised /\ exc # "ZeroDivisionError")

\* C10: reconciling the same batch again against the tracked set it gave
\* matches the i-th detection to the i-th tracked annotation: every
\* detection is matched, to a distinct annotation, and none is created.
C10_RepeatIsOneToOne ==
    (JustReconciled /\ lastRecon.repeat) =>
      /\ Len(lastRecon.log) = Len(lastRecon.before)
      /\ \A k \in DOMAIN lastRecon.log :
            Matched(k) /\ lastRecon.log[k].uuid = lastRecon.before[k]
      /\ \A k, k2 \in DOMAIN lastRecon.log :
            lastRecon.log[k].uuid = lastRecon.log[k2].uuid => k = k2

\* The draw that followed the last reconciliation is the one recorded in
\* drawn: the reconciliation completed and its dispatch and draw were done.
DrawnAfterRecon ==
    /\ lastRecon.done /\ ~lastRecon.raised
    /\ branch = "reconcile"
    /\ pc \in {"apply", "waitkey", "read", "close_q", "done"}

\* the detection of the last reconciliation that the object u stands for:
\* the last one matched to it, or the one it was created from
LastDet(u) ==
    LET k == CHOOSE k \in DOMAIN lastRecon.log :
                 /\ lastRecon.log[k].uuid = u
                 /\ \A k2 \in DOMAIN lastRecon.log :
                       lastRecon.log[k2].uuid = u => k2 <= k
    IN  lastRecon.log[k].det

\* C11: a detection below min_confidence takes part in reconciliation (it
\* has its entry in the new tracked set), and draw_annotations draws a
\* tracked annotation only when the score of the detection it stands for
\* (last matched to, or created from) is at least min_confidence.  Stated for
\* tracked sets that hold every object once.
C11_DrawnOnlyAboveConfidence ==
    (DrawnAfterRecon /\ Cardinality(Range(annotations)) = Len(annotations)) =>
      /\ Len(annotations) = Len(lastRecon.annos)
      /\ \A k \in DOMAIN drawn :
            LastDet(drawn[k]).score >= MinConfidence

\* number of step() calls made on the object u in the last apply
StepCalls(u) == Cardinality({k \in DOMAIN stepped : stepped[k] = u})

\* C12: on every tick whose poll of annotation_queue finds no batch, apply
\* calls step exactly once on every tracked annotation, leaves the tracked
\* set's membership, order and size unchanged, creates no annotation and
\* dispatches no frame.
C12_StepOnlyTick ==
    /\ [](branch = "step" =>
            \A u \in Range(annotations) : StepCalls(u) = 1)
    /\ [][(AtAnnotator /\ annotation_queue = <<>> /\ <<pc, h>>' # <<pc, h>>)
          => (/\ annotations' = annotations
              /\ DOMAIN objs' = DOMAIN objs
              /\ nextUuid' = nextUuid
              /\ frame_queue' = frame_queue)]_vars

\* C13: after every reconciliation the tracked set is the matched list of
\* that cycle: one entry per detection of the class-filtered batch, in batch
\* order (the object the detection was matched to, or the one created from
\* it), and no previously tracked annotation that no detection matched is in
\* it.
C13_TrackedSetIsMatchedList ==
    JustReconciled =>
      /\ lastRecon.annos = FilterPerson(lastRecon.batch)
      /\ Len(annotations) = Len(lastRecon.annos)
      /\ Len(lastRecon.log) = Len(lastRecon.annos)
      /\ \A k \in DOMAIN annotations :
            /\ annotations[k] = lastRecon.log[k].uuid
            /\ lastRecon.log[k].det = lastRecon.annos[k]
            /\ Matched(k) <=> annotations[k] \in Range(lastRecon.before)
      /\ DOMAIN objs = Range(annotations)
      /\ \A u \in Range(lastRecon.before) :
            (\A k \in DOMAIN lastRecon.log : lastRecon.log[k].uuid # u)
               => u \notin Range(annotations)

\* C13 witness: a reconciliation of a batch holding a detection of another
\* class, which kept one detection and dropped a tracked annotation that
\* nothing matched.
C13_Witness ==
    /\ JustReconciled
    /\ Len(lastRecon.annos) < Len(lastRecon.batch)
    /\ annotations # <<>>
    /\ \E u \in Range(lastRecon.before) : u \notin Range(annotations)

\* C14: a polled batch holding no detection of label person (an empty batch
\* included) leaves the tracked set empty: every annotation tracked before
\* is dropped.
C14_NoPersonEmptiesTrackedSet ==
    (JustReconciled /\ \A k \in DOMAIN lastRecon.batch :
                          lastRecon.batch[k].label # "person")
       => (annotations = <<>> /\ colors = <<>> /\ objs = NoObjs)

\* C14 witness: a batch of detections of another class only, polled while
\* annotations were tracked.
C14_Witness ==
    /\ JustReconciled
    /\ lastRecon.batch # <<>>
    /\ \A k \in DOMAIN lastRecon.batch : lastRecon.batch[k].label # "person"
    /\ lastRecon.before # <<>>
    /\ annotations = <<>>

\* C15: a detection that matches no tracked annotation yields exactly one
\* new TrackingAnnotation in the new tracked set, made from that detection,
\* whose uuid differs from the uuid of every annotation created before it
\* (the dropped ones included: uuids below lastRecon.next) and from the
\* uuids of the other entries; one detection against an empty tracked set
\* gives a tracked set of exactly one new annotation.
C15_UnmatchedDetectionIsNewAndFresh ==
    JustReconciled =>
      /\ \A k \in DOMAIN lastRecon.log :
            ~Matched(k) =>
              /\ lastRecon.log[k].uuid >= lastRecon.next
              /\ lastRecon.log[k].uuid < nextUuid
              /\ lastRecon.log[k].uuid \notin DOMAIN lastRecon.beforeObjs
              /\ \A k2 \in DOMAIN annotations :
                    annotations[k2] = lastRecon.log[k].uuid <=> k2 = k
              /\ objs[lastRecon.log[k].uuid].annotation = lastRecon.log[k].det
              /\ objs[lastRecon.log[k].uuid].rectAttr = <<>>
      /\ (Len(lastRecon.annos) = 1 /\ lastRecon.before = <<>>)
            => (Len(annotations) = 1 /\ ~Matched(1))

\* C15 witness: a reconciliation that created an object for an unmatched
\* detection when objects had been created before, one of which it dropped.
C15_Witness ==
    /\ JustReconciled
    /\ \E k \in DOMAIN lastRecon.log : ~Matched(k)
    /\ lastRecon.next > 1
    /\ \E u \in DOMAIN lastRecon.beforeObjs : u \notin DOMAIN objs

\* the rect of the tracked annotation at position j of the tracked list as
\* it was when the reconciliation began
RectBefore(j) == GetRect(lastRecon.beforeObjs[lastRecon.before[j]])

\* positions of the tracked list whose annotation satisfies the match
\* conditions of lines 221-225 for the first detection of the filtered batch
Candidates ==
    {j \in DOMAIN lastRecon.before :
        LET d == lastRecon.annos[1]
            t == lastRecon.beforeObjs[lastRecon.before[j]]
            ov == Overlap(d.rect, RectBefore(j))
        IN  /\ GetLabel(t) = d.label
            /\ RatioLow * Area(d.rect) <= 100 * Area(RectBefore(j))
            /\ 100 * Area(RectBefore(j)) <= RatioHigh * Area(d.rect)
            /\ ~ov.none
            /\ 100 * ov.num > OverlapMin * ov.den}

\* C16: the overlap threshold is strict.  Every match was made at an overlap
\* that is not None and is above 0.7 (so an overlap of exactly 0.7, or None,
\* never matches), and a detection whose overlap with a tracked annotation of
\* its label and within the size band is above 0.7 (0.71, say) is matched.
C16_OverlapThresholdStrict ==
    JustReconciled =>
      /\ \A k \in DOMAIN lastRecon.log :
            Matched(k) =>
              LET ov == Overlap(lastRecon.log[k].det.rect, lastRecon.log[k].tRect)
              IN  ~ov.none /\ 100 * ov.num > OverlapMin * ov.den
      /\ (lastRecon.annos # <<>> /\ Candidates # {}) => Matched(1)

\* C16 witness: a detection whose overlap with the one tracked annotation is
\* exactly 0.7, at equal label and equal area, was not matched.
C16_Witness ==
    /\ JustReconciled
    /\ Len(lastRecon.before) = 1
    /\ Len(lastRecon.annos) = 1
    /\ LET ov == Overlap(lastRecon.annos[1].rect, RectBefore(1))
       IN  ~ov.none /\ 100 * ov.num = OverlapMin * ov.den
    /\ Area(lastRecon.annos[1].rect) = Area(RectBefore(1))
    /\ ~Matched(1)

\* C18: first match wins.  When several tracked annotations satisfy the match
\* conditions for a detection, it is matched to the one earliest in the
\* tracked list, and the detection contributes exactly one entry to the new
\* tracked set.  Stated for the first detection of the batch, which is
\* compared with the tracked annotations as they were before the cycle.
C18_FirstMatchWins ==
    (JustReconciled /\ lastRecon.annos # <<>> /\ Candidates # {}) =>
      /\ Matched(1)
      /\ \E j \in Candidates :
            /\ \A j2 \in Candidates : j <= j2
            /\ annotations[1] = lastRecon.before[j]
      /\ Len(annotations) = Len(lastRecon.annos)

\* C18 witness: two different tracked annotations both satisfied the match
\* conditions for the first detection.
C18_Witness ==
    /\ JustReconciled
    /\ lastRecon.annos # <<>>
    /\ \E j, j2 \in Candidates : lastRecon.before[j] # lastRecon.before[j2]
    /\ Matched(1)

\* the calls a loop over the first n handlers of the pipeline makes on the
\* frame f: handler k is given what handler k-1 returned
ExpectedCalls(n, f) ==
    [k \in 1..n |-> [handler |-> pipeline[k], frame |-> f,
                     via |-> SubSeq(pipeline, 1, k - 1)]]

\* C17: Command.handle invokes apply_first exactly once on each handler, on
\* the first frame, in chain order; on every later frame it invokes apply
\* once on each handler, in chain order; each handler is given the frame the
\* handler before it returned; and apply is invoked on no handler before
\* apply_first was invoked on it.  A loop cut short by an exception has made
\* a prefix of these calls.
C17_ChainOrder ==
    /\ Len(firstLog) <= Len(pipeline)
    /\ firstLog = ExpectedCalls(Len(firstLog), 1)
    /\ (frameNo > 1 \/ pc = "read") => Len(firstLog) = Len(pipeline)
    /\ Len(applyLog) <= Len(pipeline)
    /\ applyLog = ExpectedCalls(Len(applyLog), frameNo)
    /\ applyLog # <<>> => (frameNo > 1 /\ Len(firstLog) = Len(pipeline))
    /\ pc = "waitkey" => Len(applyLog) = Len(pipeline)
    /\ pc = "apply" => (Len(applyLog) = h - 1 /\ via = SubSeq(pipeline, 1, h - 1))

\* C17 witness: the third frame went through a chain of four handlers, the
\* ImageAnnotator reconciling on it.
C17_Witness ==
    /\ pc = "waitkey"
    /\ Len(pipeline) > 3
    /\ frameNo > 2
    /\ branch = "reconcile"
    /\ Len(applyLog) = Len(pipeline)

\* the rect the tracker's window stands for: (x, y, x + width, y + height)
RectOfWindow(win) == MkRect(win[1], win[2], win[1] + win[3], win[2] + win[4])

\* C19: after step on a tracked annotation, at any point of its life, its
\* rect as matching and drawing read it is the rectangle the tracker
\* produced, converted back from (x, y, width, height).
C19_StepUpdatesRect ==
    branch = "step" =>
      \A u \in Range(stepped) : GetRect(objs[u]) = RectOfWindow(objs[u].track_window)

\* C20: every batch apply consumes is the detector's output for the frame
\* dispatched last, which is the frame held in anno_frame when the batch is
\* reconciled; the trackers a reconciliation creates or re-initializes are
\* initialized on that frame; and the frame dispatched after a reconciliation
\* is the current frame of that tick.
C20_BatchIsForAnnoFrame ==
    /\ lastRecon.done => lastRecon.batchFrame = lastRecon.anno_frame
    /\ JustReconciled =>
          /\ \A u \in Range(annotations) : objs[u].tracker.frame = lastRecon.batchFrame
          /\ anno_frame = frame
    /\ pc # "apply_put" =>
          /\ \A k \in DOMAIN frame_queue :
                ~frame_queue[k].none => frame_queue[k].frame = anno_frame
          /\ wpc = "annotate" => wframe = anno_frame
          /\ \A k \in DOMAIN annotation_queue : annotation_queue[k].frame = anno_frame
    /\ (lastRecon.done /\ ~lastRecon.raised /\ pc # "apply_put" /\ since = 0
          /\ sentinels = 0 /\ ~Terminated)
         => (Outstanding = 1 /\ anno_frame > lastRecon.batchFrame)

\* C20 witness: a second reconciliation, of the batch computed from the
\* frame the first reconciliation dispatched, has initialized a tracker.
C20_Witness ==
    /\ JustReconciled
    /\ lastRecon.batchFrame > 1
    /\ annotations # <<>>
    /\ objs[annotations[1]].tracker.frame = lastRecon.batchFrame
====
